---- MODULE Spec2Model ----
(***************************************************************************)
(* Model of app.py, the Streamlit "Altitude Sickness Risk Analyzer".       *)
(*                                                                         *)
(* Three specifications share the variables:                               *)
(*   Spec        one run of the page script after another: the two sidebar *)
(*               buttons, the main-content guard, analyze_altitude and the *)
(*               guarded call of assess_risk_profile;                      *)
(*   SpecAssess  assess_risk_profile called as a function, statement group *)
(*               by statement group, on every elevation;                   *)
(*   SpecScore   the symptoms checker of the page (14 checkboxes).         *)
(* Elevations are integers; the comparisons of the code give the same      *)
(* result for the floats an elevation service may return.  The fields      *)
(* 'lat', 'lon', 'description' take part in no decision and are left out.  *)
(***************************************************************************)
EXTENDS Integers, Sequences, FiniteSets, TLC

\* ------------------------------------------------------------------ bounds
\* Elevations tried around every threshold of the code: t - Delta .. t + Delta.
Delta == 1

Thresholds == {0, 1500, 2500, 2800, 3500, 5800, 8000, 9000}

\* The elevations of the worked examples (3000, 3600, 5000) are tried as well.
Samples == {3000, 3600, 5000}

Elevations == {t + d : t \in Thresholds, d \in (0 - Delta)..Delta} \cup Samples

\* st.sidebar.number_input(min_value=0, max_value=9000)
ManualMin == 0
ManualMax == 9000
ManualElevations == {e \in Elevations : ManualMin <= e /\ e <= ManualMax}

VARIABLES
    session_state,    \* st.session_state: a function whose domain holds the stored keys
    pc,               \* position of the running script / function
    elevation,        \* local 'elevation'
    altitude_info,    \* result of analyze_altitude
    profile,          \* the six checkboxes handed to assess_risk_profile
    risk_level,       \* local of assess_risk_profile
    risk_factors,     \* local of assess_risk_profile
    banner,           \* the risk banner displayed after assess_risk_profile
    symptoms,         \* the 14 symptom checkboxes
    lake_louise_score,
    diagnosis,        \* the diagnosis messages displayed by the symptoms checker
    notice,           \* what the "Analyze Location" handler showed: st.error / st.warning
    response,         \* what the two HTTP services did to a call of get_elevation
    result            \* what that call of get_elevation gave back to its caller

vars == <<session_state, pc, elevation, altitude_info, profile, risk_level,
          risk_factors, banner, symptoms, lake_louise_score, diagnosis,
          notice, response, result>>

pageVars == <<elevation, altitude_info, profile, risk_level, risk_factors, banner>>
scoreVars == <<symptoms, lake_louise_score, diagnosis>>
lookupVars == <<response, result>>

\* ------------------------------------------------------------ get_elevation
\* What the two HTTP services can do to one lookup.
\* Geocoding request: "exception" is requests.get raising (network, timeout),
\* "malformed" is a 200 answer whose body is not the expected JSON, "empty" is
\* a 200 answer with an empty list.  Likewise for the elevation request.
GeoOutcomes == {"ok", "non200", "empty", "malformed", "exception"}
ElevOutcomes == {"ok", "non200", "malformed", "exception"}

NetOutcomes == [geo : GeoOutcomes, elev : ElevOutcomes, elevation : Elevations]

NotFound == [success |-> FALSE, error |-> "Location not found"]

\* The body of the try block: it either raises or comes to a return.
try_body(net) ==
    IF net.geo \in {"exception", "malformed"} THEN [raised |-> TRUE, error |-> net.geo]
    ELSE IF net.geo = "ok"
         THEN IF net.elev \in {"exception", "malformed"}
              THEN [raised |-> TRUE, error |-> net.elev]
              ELSE IF net.elev = "ok"
                   THEN [raised |-> FALSE,
                         value |-> [success |-> TRUE, elevation |-> net.elevation,
                                    location |-> "display_name"]]
                   ELSE [raised |-> FALSE, value |-> NotFound]
         ELSE [raised |-> FALSE, value |-> NotFound]

\* An except clause for the exceptions of requests only: a malformed body
\* raises KeyError / ValueError past it.
get_elevation_narrow_except(net) ==
    LET r == try_body(net) IN
    IF r.raised
    THEN IF r.error = "exception" THEN [success |-> FALSE, error |-> r.error] ELSE r
    ELSE r.value

get_elevation(net) ==
    LET r == try_body(net) IN
    IF r.raised THEN [success |-> FALSE, error |-> r.error] ELSE r.value

\* ---------------------------------------------------------- analyze_altitude
NoInfo == [category |-> "none", risk |-> "none", oxygen_sat |-> "none", color |-> "none"]

analyze_altitude_negative_falls_through(e) ==
    IF 0 <= e /\ e < 1500 THEN
        [category |-> "Sea Level to Low Altitude", risk |-> "Minimal",
         oxygen_sat |-> ">95%", color |-> "low"]
    ELSE IF 1500 <= e /\ e < 2500 THEN
        [category |-> "Intermediate Altitude (1,500-2,500m)", risk |-> "Low",
         oxygen_sat |-> ">90%", color |-> "low"]
    ELSE IF 2500 <= e /\ e < 3500 THEN
        [category |-> "High Altitude (2,500-3,500m)", risk |-> "Moderate",
         oxygen_sat |-> "85-90%", color |-> "medium"]
    ELSE IF 3500 <= e /\ e < 5800 THEN
        [category |-> "Very High Altitude (3,500-5,800m)", risk |-> "High",
         oxygen_sat |-> "<90%", color |-> "high"]
    ELSE IF 5800 <= e /\ e < 8000 THEN
        [category |-> "Extreme Altitude (5,800-8,000m)", risk |-> "Very High",
         oxygen_sat |-> "<80%", color |-> "high"]
    ELSE
        [category |-> "Death Zone (>8,000m)", risk |-> "Extreme",
         oxygen_sat |-> "~55%", color |-> "high"]

analyze_altitude_boundary_low(e) ==
    IF e <= 1500 THEN
        [category |-> "Sea Level to Low Altitude", risk |-> "Minimal",
         oxygen_sat |-> ">95%", color |-> "low"]
    ELSE IF 1500 <= e /\ e <= 2500 THEN
        [category |-> "Intermediate Altitude (1,500-2,500m)", risk |-> "Low",
         oxygen_sat |-> ">90%", color |-> "low"]
    ELSE IF 2500 <= e /\ e <= 3500 THEN
        [category |-> "High Altitude (2,500-3,500m)", risk |-> "Moderate",
         oxygen_sat |-> "85-90%", color |-> "medium"]
    ELSE IF 3500 <= e /\ e <= 5800 THEN
        [category |-> "Very High Altitude (3,500-5,800m)", risk |-> "High",
         oxygen_sat |-> "<90%", color |-> "high"]
    ELSE IF 5800 <= e /\ e <= 8000 THEN
        [category |-> "Extreme Altitude (5,800-8,000m)", risk |-> "Very High",
         oxygen_sat |-> "<80%", color |-> "high"]
    ELSE
        [category |-> "Death Zone (>8,000m)", risk |-> "Extreme",
         oxygen_sat |-> "~55%", color |-> "high"]

analyze_altitude(e) ==
    IF e < 1500 THEN
        [category |-> "Sea Level to Low Altitude", risk |-> "Minimal",
         oxygen_sat |-> ">95%", color |-> "low"]
    ELSE IF 1500 <= e /\ e < 2500 THEN
        [category |-> "Intermediate Altitude (1,500-2,500m)", risk |-> "Low",
         oxygen_sat |-> ">90%", color |-> "low"]
    ELSE IF 2500 <= e /\ e < 3500 THEN
        [category |-> "High Altitude (2,500-3,500m)", risk |-> "Moderate",
         oxygen_sat |-> "85-90%", color |-> "medium"]
    ELSE IF 3500 <= e /\ e < 5800 THEN
        [category |-> "Very High Altitude (3,500-5,800m)", risk |-> "High",
         oxygen_sat |-> "<90%", color |-> "high"]
    ELSE IF 5800 <= e /\ e < 8000 THEN
        [category |-> "Extreme Altitude (5,800-8,000m)", risk |-> "Very High",
         oxygen_sat |-> "<80%", color |-> "high"]
    ELSE
        [category |-> "Death Zone (>8,000m)", risk |-> "Extreme",
         oxygen_sat |-> "~55%", color |-> "high"]

\* ------------------------------------------------------ assess_risk_profile
Profiles == [previous_ams : BOOLEAN, previous_hace : BOOLEAN, previous_hape : BOOLEAN,
             rapid_ascent : BOOLEAN, physical_activity : BOOLEAN,
             no_acclimatization : BOOLEAN]

NoProfile == [previous_ams |-> FALSE, previous_hace |-> FALSE, previous_hape |-> FALSE,
              rapid_ascent |-> FALSE, physical_activity |-> FALSE,
              no_acclimatization |-> FALSE]

F_HACE == "Previous HACE episode - high risk for recurrence"
F_HAPE == "Previous HAPE episode - high risk for recurrence"
F_AMS_VERY_HIGH == "Previous AMS with rapid ascent to very high altitude"
F_AMS == "Previous AMS history increases risk"
F_RAPID_VERY_HIGH == "Rapid ascent to very high altitude (>3,500m)"
F_RAPID_HIGH == "Rapid ascent to high altitude without acclimatization"
F_ACTIVITY == "Strenuous physical activity increases risk"

\* Each step maps the locals [level, factors] to their values after the step.
history_step_hape_first(e, p, loc) ==
    IF p.previous_hace \/ p.previous_hape THEN
        [level |-> "High",
         factors |-> loc.factors
                     \o (IF p.previous_hape THEN <<F_HAPE>> ELSE <<>>)
                     \o (IF p.previous_hace THEN <<F_HACE>> ELSE <<>>)]
    ELSE IF p.previous_ams THEN
        IF e >= 3500
        THEN [level |-> "High", factors |-> Append(loc.factors, F_AMS_VERY_HIGH)]
        ELSE [level |-> "Moderate", factors |-> Append(loc.factors, F_AMS)]
    ELSE loc

history_step_ams_strict(e, p, loc) ==
    IF p.previous_hace \/ p.previous_hape THEN
        [level |-> "High",
         factors |-> loc.factors
                     \o (IF p.previous_hace THEN <<F_HACE>> ELSE <<>>)
                     \o (IF p.previous_hape THEN <<F_HAPE>> ELSE <<>>)]
    ELSE IF p.previous_ams THEN
        IF e > 3500
        THEN [level |-> "High", factors |-> Append(loc.factors, F_AMS_VERY_HIGH)]
        ELSE [level |-> "Moderate", factors |-> Append(loc.factors, F_AMS)]
    ELSE loc

history_step_ams_silent(e, p, loc) ==
    IF p.previous_hace \/ p.previous_hape THEN
        [level |-> "High",
         factors |-> loc.factors
                     \o (IF p.previous_hace THEN <<F_HACE>> ELSE <<>>)
                     \o (IF p.previous_hape THEN <<F_HAPE>> ELSE <<>>)]
    ELSE IF p.previous_ams THEN
        IF e >= 3500
        THEN [level |-> "High", factors |-> Append(loc.factors, F_AMS_VERY_HIGH)]
        ELSE [level |-> "Moderate", factors |-> loc.factors]
    ELSE loc

history_step(e, p, loc) ==
    IF p.previous_hace \/ p.previous_hape THEN
        [level |-> "High",
         factors |-> loc.factors
                     \o (IF p.previous_hace THEN <<F_HACE>> ELSE <<>>)
                     \o (IF p.previous_hape THEN <<F_HAPE>> ELSE <<>>)]
    ELSE IF p.previous_ams THEN
        IF e >= 3500
        THEN [level |-> "High", factors |-> Append(loc.factors, F_AMS_VERY_HIGH)]
        ELSE [level |-> "Moderate", factors |-> Append(loc.factors, F_AMS)]
    ELSE loc

ascent_step_unguarded(e, p, loc) ==
    IF e >= 3500 THEN
        IF p.rapid_ascent \/ p.no_acclimatization
        THEN [level |-> "High", factors |-> Append(loc.factors, F_RAPID_VERY_HIGH)]
        ELSE loc
    ELSE IF e >= 2800 THEN
        IF p.rapid_ascent
        THEN [level |-> "Moderate", factors |-> Append(loc.factors, F_RAPID_HIGH)]
        ELSE loc
    ELSE loc

ascent_step_needs_both(e, p, loc) ==
    IF e >= 3500 THEN
        IF p.rapid_ascent /\ p.no_acclimatization
        THEN [level |-> "High", factors |-> Append(loc.factors, F_RAPID_VERY_HIGH)]
        ELSE loc
    ELSE IF e >= 2800 THEN
        IF p.rapid_ascent
        THEN [level |-> IF loc.level # "High" THEN "Moderate" ELSE loc.level,
              factors |-> Append(loc.factors, F_RAPID_HIGH)]
        ELSE loc
    ELSE loc

ascent_step(e, p, loc) ==
    IF e >= 3500 THEN
        IF p.rapid_ascent \/ p.no_acclimatization
        THEN [level |-> "High", factors |-> Append(loc.factors, F_RAPID_VERY_HIGH)]
        ELSE loc
    ELSE IF e >= 2800 THEN
        IF p.rapid_ascent
        THEN [level |-> IF loc.level # "High" THEN "Moderate" ELSE loc.level,
              factors |-> Append(loc.factors, F_RAPID_HIGH)]
        ELSE loc
    ELSE loc

activity_step_escalates(e, p, loc) ==
    IF p.physical_activity /\ e >= 2500
    THEN [level |-> IF loc.level = "Low" THEN "Moderate" ELSE loc.level,
          factors |-> Append(loc.factors, F_ACTIVITY)]
    ELSE loc

activity_step(e, p, loc) ==
    IF p.physical_activity /\ e >= 2500
    THEN [level |-> loc.level, factors |-> Append(loc.factors, F_ACTIVITY)]
    ELSE loc

\* The whole function: the three steps in order from ("Low", []).
assess_risk_profile(e, p) ==
    activity_step(e, p,
        ascent_step(e, p,
            history_step(e, p, [level |-> "Low", factors |-> <<>>])))

\* The banner chosen from the returned level (the if/elif/else after the call).
risk_banner(level) ==
    IF level = "High" THEN "HIGH RISK"
    ELSE IF level = "Moderate" THEN "MODERATE RISK"
    ELSE "LOW RISK"

\* ------------------------------------------------------------------- Init
NoSymptoms == [headache |-> FALSE, nausea |-> FALSE, fatigue |-> FALSE,
               dizziness |-> FALSE, anorexia |-> FALSE,
               dyspnea_exertion |-> FALSE, dyspnea_rest |-> FALSE, cough_dry |-> FALSE,
               cough_productive |-> FALSE, chest_tightness |-> FALSE,
               ataxia |-> FALSE, altered_mental |-> FALSE, severe_lassitude |-> FALSE,
               cyanosis |-> FALSE]

EmptySession == [k \in {} |-> NoInfo]

\* No call of get_elevation is under way.
NoResponse == [geo |-> "none", elev |-> "none", elevation |-> 0]
NoResult == [success |-> FALSE, error |-> "none"]

Init ==
    /\ session_state = EmptySession
    /\ pc = "idle"
    /\ elevation = 0
    /\ altitude_info = NoInfo
    /\ profile = NoProfile
    /\ risk_level = "Low"
    /\ risk_factors = <<>>
    /\ banner = "none"
    /\ symptoms = NoSymptoms
    /\ lake_louise_score = 0
    /\ diagnosis = {}
    /\ notice = "none"
    /\ response = NoResponse
    /\ result = NoResult

\* A run of the script starts with no locals and nothing displayed.
FreshRun ==
    /\ elevation' = 0
    /\ altitude_info' = NoInfo
    /\ profile' = NoProfile
    /\ risk_level' = "Low"
    /\ risk_factors' = <<>>
    /\ banner' = "none"

\* ------------------------------------------------------- the page script
\* session_state[key] = value
store(session, key, value) ==
    [k \in DOMAIN session \cup {key} |-> IF k = key THEN value ELSE session[k]]

\* The handler without the test of result['success'].
AnalyzeLocation_stores_any_result ==
    /\ pc = "idle"
    /\ \E named \in BOOLEAN, net \in NetOutcomes :
          LET r == get_elevation(net) IN
          /\ session_state' = IF named
                              THEN store(session_state, "elevation_data", r)
                              ELSE session_state
          /\ notice' = IF ~named THEN "warning"
                       ELSE IF r.success THEN "none" ELSE "error"
    /\ pc' = "main"
    /\ FreshRun
    /\ UNCHANGED <<scoreVars, lookupVars>>

\* "Analyze Location" pressed: the lookup result is stored only on success;
\* a failure shows st.error, an empty name shows st.warning.
AnalyzeLocation ==
    /\ pc = "idle"
    /\ \E named \in BOOLEAN, net \in NetOutcomes :
          LET r == get_elevation(net) IN
          /\ session_state' = IF named /\ r.success
                              THEN store(session_state, "elevation_data", r)
                              ELSE session_state
          /\ notice' = IF ~named THEN "warning"
                       ELSE IF r.success THEN "none" ELSE "error"
    /\ pc' = "main"
    /\ FreshRun
    /\ UNCHANGED <<scoreVars, lookupVars>>

\* "Use Manual Elevation" pressed.
UseManualElevation ==
    /\ pc = "idle"
    /\ \E manual_elevation \in ManualElevations :
          session_state' =
              store(session_state, "elevation_data",
                    [success |-> TRUE, elevation |-> manual_elevation,
                     location |-> "Manual Entry"])
    /\ notice' = "none"
    /\ pc' = "main"
    /\ FreshRun
    /\ UNCHANGED <<scoreVars, lookupVars>>

\* Any other widget change reruns the script without touching the session.
Rerun ==
    /\ pc = "idle"
    /\ notice' = "none"
    /\ pc' = "main"
    /\ FreshRun
    /\ UNCHANGED <<session_state, scoreVars, lookupVars>>

MainGuard ==
    /\ "elevation_data" \in DOMAIN session_state
    /\ session_state["elevation_data"].success

\* Main content: the guard holds, the elevation is read and classified.
MainContent ==
    /\ pc = "main"
    /\ MainGuard
    /\ elevation' = session_state["elevation_data"].elevation
    /\ altitude_info' = analyze_altitude(elevation')
    /\ pc' = "classified"
    /\ UNCHANGED <<session_state, profile, risk_level, risk_factors, banner,
                   scoreVars, lookupVars, notice>>

\* Main content: the guard fails, the welcome screen is shown instead.
Welcome ==
    /\ pc = "main"
    /\ ~MainGuard
    /\ pc' = "idle"
    /\ UNCHANGED <<session_state, pageVars, scoreVars, lookupVars, notice>>

\* Personal risk assessment: the six checkboxes, then the call.
AssessCall ==
    /\ pc = "classified"
    /\ elevation >= 2500
    /\ \E p \in Profiles : profile' = p
    /\ risk_level' = "Low"
    /\ risk_factors' = <<>>
    /\ pc' = "history"
    /\ UNCHANGED <<session_state, elevation, altitude_info, banner,
                   scoreVars, lookupVars, notice>>

\* Below 2500 m the risk assessment section is not shown.
AssessSkipped ==
    /\ pc = "classified"
    /\ elevation < 2500
    /\ pc' = "idle"
    /\ UNCHANGED <<session_state, pageVars, scoreVars, lookupVars, notice>>

Locals == [level |-> risk_level, factors |-> risk_factors]

HistoryStep ==
    /\ pc = "history"
    /\ LET r == history_step(elevation, profile, Locals) IN
          /\ risk_level' = r.level
          /\ risk_factors' = r.factors
    /\ pc' = "ascent"
    /\ UNCHANGED <<session_state, elevation, altitude_info, profile, banner,
                   scoreVars, lookupVars, notice>>

AscentStep ==
    /\ pc = "ascent"
    /\ LET r == ascent_step(elevation, profile, Locals) IN
          /\ risk_level' = r.level
          /\ risk_factors' = r.factors
    /\ pc' = "activity"
    /\ UNCHANGED <<session_state, elevation, altitude_info, profile, banner,
                   scoreVars, lookupVars, notice>>

ActivityStep ==
    /\ pc = "activity"
    /\ LET r == activity_step(elevation, profile, Locals) IN
          /\ risk_level' = r.level
          /\ risk_factors' = r.factors
    /\ pc' = "return"
    /\ UNCHANGED <<session_state, elevation, altitude_info, profile, banner,
                   scoreVars, lookupVars, notice>>

\* The function returns (risk_level, risk_factors); the caller shows the banner.
AssessReturn ==
    /\ pc = "return"
    /\ banner' = risk_banner(risk_level)
    /\ pc' = "done"
    /\ UNCHANGED <<session_state, elevation, altitude_info, profile, risk_level,
                   risk_factors, scoreVars, lookupVars, notice>>

\* The script comes to its end: its locals are gone, the session stays.
ScriptEnd ==
    /\ pc = "done"
    /\ pc' = "idle"
    /\ FreshRun
    /\ UNCHANGED <<session_state, scoreVars, lookupVars, notice>>

Next ==
    \/ AnalyzeLocation
    \/ UseManualElevation
    \/ Rerun
    \/ MainContent
    \/ Welcome
    \/ AssessCall
    \/ AssessSkipped
    \/ HistoryStep
    \/ AscentStep
    \/ ActivityStep
    \/ AssessReturn
    \/ ScriptEnd

Spec == Init /\ [][Next]_vars

\* ------------------------------- assess_risk_profile called as a function
DirectCall ==
    /\ pc = "idle"
    /\ \E e \in Elevations, p \in Profiles :
          /\ elevation' = e
          /\ profile' = p
    /\ risk_level' = "Low"
    /\ risk_factors' = <<>>
    /\ banner' = "none"
    /\ pc' = "history"
    /\ UNCHANGED <<session_state, altitude_info, scoreVars, lookupVars, notice>>

NextAssess ==
    \/ DirectCall
    \/ HistoryStep
    \/ AscentStep
    \/ ActivityStep
    \/ AssessReturn
    \/ ScriptEnd

SpecAssess == Init /\ [][NextAssess]_vars

\* -------------------------------------------------------- symptoms checker
SymptomSets == [headache : BOOLEAN, nausea : BOOLEAN, fatigue : BOOLEAN,
                dizziness : BOOLEAN, anorexia : BOOLEAN,
                dyspnea_exertion : BOOLEAN, dyspnea_rest : BOOLEAN, cough_dry : BOOLEAN,
                cough_productive : BOOLEAN, chest_tightness : BOOLEAN,
                ataxia : BOOLEAN, altered_mental : BOOLEAN, severe_lassitude : BOOLEAN,
                cyanosis : BOOLEAN]

\* Python's sum() over booleans: True counts 1.
B(flag) == IF flag THEN 1 ELSE 0

lake_louise_separate_anorexia(s) ==
    LET s1 == IF s.headache THEN 1 ELSE 0
        s2 == IF s.nausea THEN s1 + 1 ELSE s1
        s3 == IF s.anorexia THEN s2 + 1 ELSE s2
        s4 == IF s.fatigue THEN s3 + 1 ELSE s3
        s5 == IF s.dizziness THEN s4 + 1 ELSE s4
    IN s5

\* Every symptom present scored 2 of the 0..3 points of the clinical instrument.
lake_louise_two_points_each(s) ==
    LET s1 == IF s.headache THEN 2 ELSE 0
        s2 == IF s.nausea \/ s.anorexia THEN s1 + 2 ELSE s1
        s3 == IF s.fatigue THEN s2 + 2 ELSE s2
        s4 == IF s.dizziness THEN s3 + 2 ELSE s3
    IN s4

lake_louise(s) ==
    LET s1 == IF s.headache THEN 1 ELSE 0
        s2 == IF s.nausea \/ s.anorexia THEN s1 + 1 ELSE s1
        s3 == IF s.fatigue THEN s2 + 1 ELSE s2
        s4 == IF s.dizziness THEN s3 + 1 ELSE s3
    IN s4

basic_symptoms(s) ==
    B(s.headache) + B(s.nausea) + B(s.fatigue) + B(s.dizziness) + B(s.anorexia)

pulmonary_symptoms(s) ==
    B(s.dyspnea_exertion) + B(s.dyspnea_rest) + B(s.cough_dry)
    + B(s.cough_productive) + B(s.chest_tightness)

cerebral_symptoms_without_ataxia(s) ==
    B(s.altered_mental) + B(s.severe_lassitude)

cerebral_symptoms(s) ==
    B(s.ataxia) + B(s.altered_mental) + B(s.severe_lassitude)

hace_suspected(s) == cerebral_symptoms(s) > 0

hape_suspected_needs_three(s) ==
    pulmonary_symptoms(s) > 2 \/ s.dyspnea_rest \/ s.cough_productive

hape_suspected(s) ==
    pulmonary_symptoms(s) >= 2 \/ s.dyspnea_rest \/ s.cough_productive

ams_message_low_threshold(s, score) ==
    IF s.headache /\ basic_symptoms(s) >= 1 /\ cerebral_symptoms(s) = 0
       /\ pulmonary_symptoms(s) < 2
    THEN IF score >= 6 THEN "SEVERE AMS"
         ELSE IF score >= 2 THEN "MILD-MODERATE AMS"
         ELSE "none"
    ELSE "none"

ams_message(s, score) ==
    IF s.headache /\ basic_symptoms(s) >= 1 /\ cerebral_symptoms(s) = 0
       /\ pulmonary_symptoms(s) < 2
    THEN IF score >= 6 THEN "SEVERE AMS"
         ELSE IF score >= 3 THEN "MILD-MODERATE AMS"
         ELSE "none"
    ELSE "none"

\* The page as it stands when the symptoms section is reached: a manual
\* entry of the default elevation 0 has been stored and classified.
InitScore ==
    /\ session_state = [k \in {"elevation_data"} |->
                           [success |-> TRUE, elevation |-> 0, location |-> "Manual Entry"]]
    /\ pc = "symptoms"
    /\ elevation = 0
    /\ altitude_info = analyze_altitude(0)
    /\ profile = NoProfile
    /\ risk_level = "Low"
    /\ risk_factors = <<>>
    /\ banner = "none"
    /\ symptoms = NoSymptoms
    /\ lake_louise_score = 0
    /\ diagnosis = {}
    /\ notice = "none"
    /\ response = NoResponse
    /\ result = NoResult

\* The 14 checkboxes are read and the Lake Louise score is summed.
ScoreSymptoms ==
    /\ pc = "symptoms"
    /\ \E s \in SymptomSets : symptoms' = s
    /\ lake_louise_score' = lake_louise(symptoms')
    /\ diagnosis' = {}
    /\ pc' = "diagnose"
    /\ UNCHANGED <<session_state, pageVars, lookupVars, notice>>

\* The three independent 'if' blocks of the diagnosis, in one run.
Diagnose ==
    /\ pc = "diagnose"
    /\ diagnosis' = (IF hace_suspected(symptoms) THEN {"HACE"} ELSE {})
                    \cup (IF hape_suspected(symptoms) THEN {"HAPE"} ELSE {})
                    \cup ({ams_message(symptoms, lake_louise_score)} \ {"none"})
    /\ pc' = "shown"
    /\ UNCHANGED <<session_state, pageVars, symptoms, lake_louise_score,
                   lookupVars, notice>>

\* The next widget change runs the script again: its locals start afresh.
NextRun ==
    /\ pc = "shown"
    /\ symptoms' = NoSymptoms
    /\ lake_louise_score' = 0
    /\ diagnosis' = {}
    /\ pc' = "symptoms"
    /\ UNCHANGED <<session_state, pageVars, lookupVars, notice>>

NextScore ==
    \/ ScoreSymptoms
    \/ Diagnose
    \/ NextRun

SpecScore == InitScore /\ [][NextScore]_vars

\* ------------------------------------- get_elevation called as a function
\* One call: the services answer (or fail) and the caller gets the result.
Lookup ==
    /\ pc = "idle"
    /\ \E net \in NetOutcomes :
          /\ response' = net
          /\ result' = get_elevation(net)
    /\ pc' = "looked_up"
    /\ UNCHANGED <<session_state, pageVars, scoreVars, notice>>

\* The caller drops the result; the next call starts afresh.
LookupDone ==
    /\ pc = "looked_up"
    /\ response' = NoResponse
    /\ result' = NoResult
    /\ pc' = "idle"
    /\ UNCHANGED <<session_state, pageVars, scoreVars, notice>>

NextLookup ==
    \/ Lookup
    \/ LookupDone

SpecLookup == Init /\ [][NextLookup]_vars

\* ================================================================ claims
RiskNames == {"Minimal", "Low", "Moderate", "High", "Very High", "Extreme"}

\* Lower bound of the interval of each category; the next one's lower bound
\* is its upper bound, so the intervals are contiguous by construction.
IntervalLow(r) ==
    CASE r = "Minimal" -> 0
      [] r = "Low" -> 1500
      [] r = "Moderate" -> 2500
      [] r = "High" -> 3500
      [] r = "Very High" -> 5800
      [] r = "Extreme" -> 8000

InInterval(e, r) ==
    /\ IntervalLow(r) <= e
    /\ \A q \in RiskNames : IntervalLow(q) > IntervalLow(r) => e < IntervalLow(q)

\* C1: every elevation >= 0 that is classified gets exactly one of the six
\* categories, the one whose half-open interval holds it; a boundary value
\* gets the higher category.
C1_ClassifyIntervals ==
    (pc = "classified" /\ elevation >= 0) =>
        /\ altitude_info.risk \in RiskNames
        /\ \A r \in RiskNames : InInterval(elevation, r) <=> altitude_info.risk = r

C1_Witness ==
    /\ pc = "classified"
    /\ elevation = 2500
    /\ altitude_info.risk = "Moderate"

\* C2 as stated: a negative elevation is rejected, no category comes back.
C2_NegativeRejected ==
    (pc = "classified" /\ elevation < 0) => altitude_info = NoInfo

\* C2 amended: a negative elevation is classified, without any error, as
\* "Sea Level to Low Altitude" / Minimal, and the elevation classified is the
\* stored one (nothing is substituted).
C2_NegativeIsMinimal ==
    (pc = "classified" /\ elevation < 0) =>
        /\ altitude_info.risk = "Minimal"
        /\ altitude_info.category = "Sea Level to Low Altitude"
        /\ elevation = session_state["elevation_data"].elevation

C2_Witness ==
    /\ pc = "classified"
    /\ elevation < 0
    /\ altitude_info.risk = "Minimal"

\* C3: an emergency (HACE or HAPE) is reported iff one of ataxia, altered
\* mental status, severe lassitude, cyanosis is set, or two pulmonary flags
\* are set, or dyspnea at rest, or productive cough.
C3_EmergencyIff ==
    pc = "shown" =>
        (({"HACE", "HAPE"} \cap diagnosis # {}) <=>
            \/ B(symptoms.ataxia) + B(symptoms.altered_mental)
               + B(symptoms.severe_lassitude) + B(symptoms.cyanosis) > 0
            \/ pulmonary_symptoms(symptoms) >= 2
            \/ symptoms.dyspnea_rest
            \/ symptoms.cough_productive)

Rank(level) ==
    CASE level = "Low" -> 0
      [] level = "Moderate" -> 1
      [] level = "High" -> 2

\* C4: no step of assess_risk_profile (history, ascent profile, exertion)
\* leaves a level lower than the one held before it.
C4_OnlyEscalates ==
    [][(pc \in {"history", "ascent", "activity"})
          => (Rank(risk_level) <= Rank(risk_level'))]_vars

C4_Witness ==
    /\ pc = "activity"
    /\ profile.previous_hace
    /\ profile.rapid_ascent
    /\ elevation >= 2800 /\ elevation < 3500
    /\ risk_level = "High"

HistoryFactors == {F_HACE, F_HAPE, F_AMS, F_AMS_VERY_HIGH}
AscentFactors == {F_RAPID_VERY_HIGH, F_RAPID_HIGH}

Positions(factors, set) == {i \in 1..Len(factors) : factors[i] \in set}

\* C5: with previous HACE or HAPE the returned level is High whatever the
\* elevation and the other flags; the factors begin with one factor per set
\* flag, HACE first, and hold no other history factor; with HACE alone the
\* factors are the HACE factor and nothing else.
C5_HaceHapeHigh ==
    (pc = "return" /\ (profile.previous_hace \/ profile.previous_hape)) =>
        LET h == (IF profile.previous_hace THEN <<F_HACE>> ELSE <<>>)
                 \o (IF profile.previous_hape THEN <<F_HAPE>> ELSE <<>>)
        IN /\ risk_level = "High"
           /\ Len(risk_factors) >= Len(h)
           /\ SubSeq(risk_factors, 1, Len(h)) = h
           /\ Positions(risk_factors, HistoryFactors) = 1..Len(h)
           /\ (profile = [NoProfile EXCEPT !.previous_hace = TRUE]
                  => risk_factors = <<F_HACE>>)

C5_Witness ==
    /\ pc = "return"
    /\ elevation = 5000
    /\ profile = [NoProfile EXCEPT !.previous_hace = TRUE]
    /\ risk_level = "High"
    /\ risk_factors = <<F_HACE>>

\* C6: with previous AMS and neither HACE nor HAPE, the history step leaves
\* High from 3500 m and Moderate below, with exactly one AMS factor; with AMS
\* as the only flag below 3500 m the returned level is Moderate.
C6_AmsHistory ==
    /\ (pc = "ascent" /\ profile.previous_ams
        /\ ~profile.previous_hace /\ ~profile.previous_hape) =>
           /\ risk_level = IF elevation >= 3500 THEN "High" ELSE "Moderate"
           /\ Len(risk_factors) = 1
           /\ risk_factors[1] \in {F_AMS, F_AMS_VERY_HIGH}
    /\ (pc = "return" /\ profile = [NoProfile EXCEPT !.previous_ams = TRUE]
        /\ elevation < 3500) => risk_level = "Moderate"

C6_Witness ==
    /\ pc = "return"
    /\ elevation = 3000
    /\ profile = [NoProfile EXCEPT !.previous_ams = TRUE]
    /\ risk_level = "Moderate"
    /\ risk_factors = <<F_AMS>>

\* C7: from 3500 m with rapid ascent or no acclimatization the returned level
\* is High whatever the history flags, and exactly one ascent-profile factor
\* is in the list, right after the history factors.
C7_AscentOverride ==
    (pc = "return" /\ elevation >= 3500
     /\ (profile.rapid_ascent \/ profile.no_acclimatization)) =>
        /\ risk_level = "High"
        /\ Positions(risk_factors, AscentFactors)
             = {Cardinality(Positions(risk_factors, HistoryFactors)) + 1}
        /\ \A i \in Positions(risk_factors, HistoryFactors) :
              \A j \in Positions(risk_factors, AscentFactors) : i < j

C7_Witness ==
    /\ pc = "return"
    /\ elevation = 3600
    /\ profile = [NoProfile EXCEPT !.rapid_ascent = TRUE]
    /\ risk_level = "High"
    /\ risk_factors = <<F_RAPID_VERY_HIGH>>

\* C8 as stated: an empty factors list means level Low and no flag set.
C8_EmptyMeansNoFlags ==
    (pc = "return" /\ risk_factors = <<>>) =>
        /\ risk_level = "Low"
        /\ profile = NoProfile

\* C8 amended: an empty factors list means level Low and no flag set that
\* applies at the elevation: no history flag, rapid ascent only below
\* 2800 m, no acclimatization only below 3500 m, exertion only below 2500 m.
C8_EmptyMeansNoApplicableFlag ==
    (pc = "return" /\ risk_factors = <<>>) =>
        /\ risk_level = "Low"
        /\ ~profile.previous_ams /\ ~profile.previous_hace /\ ~profile.previous_hape
        /\ (profile.rapid_ascent => elevation < 2800)
        /\ (profile.no_acclimatization => elevation < 3500)
        /\ (profile.physical_activity => elevation < 2500)

C8_Witness ==
    /\ pc = "return"
    /\ risk_factors = <<>>
    /\ risk_level = "Low"
    /\ profile.rapid_ascent
    /\ profile.no_acclimatization

\* C9: the Lake Louise score is the sum of the four 0/1 indicators headache,
\* (nausea or anorexia), fatigue, dizziness: an integer in 0..4 on which no
\* pulmonary or cerebral flag has any effect.
C9_LakeLouiseSum ==
    pc \in {"diagnose", "shown"} =>
        /\ lake_louise_score = B(symptoms.headache)
                               + B(symptoms.nausea \/ symptoms.anorexia)
                               + B(symptoms.fatigue) + B(symptoms.dizziness)
        /\ lake_louise_score \in 0..4

C9_Witness ==
    /\ pc = "shown"
    /\ symptoms.headache /\ symptoms.nausea /\ symptoms.anorexia
    /\ ~symptoms.fatigue /\ ~symptoms.dizziness
    /\ symptoms.ataxia /\ symptoms.cough_dry
    /\ lake_louise_score = 2

AMSMessages == {"SEVERE AMS", "MILD-MODERATE AMS"}

Emergency == {"HACE", "HAPE"} \cap diagnosis # {}

\* C10 as stated: the score alone decides the AMS classification, so every
\* set without emergency and with score 3 or 4 is shown as Mild-Moderate
\* (and a score of at most 2 never gets an AMS message).
C10_ScoreAloneDecides ==
    pc = "shown" =>
        /\ (lake_louise_score <= 2 => diagnosis \cap AMSMessages = {})
        /\ (~Emergency /\ lake_louise_score \in 3..5)
              => diagnosis \cap AMSMessages = {"MILD-MODERATE AMS"}
        /\ (~Emergency /\ lake_louise_score >= 6)
              => diagnosis \cap AMSMessages = {"SEVERE AMS"}

\* C10 amended: the AMS classification is decided by the score together with
\* the gate "headache set, no ataxia / altered mental status / severe
\* lassitude, fewer than two pulmonary flags": inside the gate a score of 3
\* to 5 is Mild-Moderate and a score from 6 is Severe; outside the gate, or
\* with a score of at most 2, no AMS message is shown.
C10_GateAndScoreDecide ==
    pc = "shown" =>
        LET gate == /\ symptoms.headache
                    /\ ~symptoms.ataxia /\ ~symptoms.altered_mental
                    /\ ~symptoms.severe_lassitude
                    /\ pulmonary_symptoms(symptoms) < 2
        IN diagnosis \cap AMSMessages =
              IF gate /\ lake_louise_score >= 6 THEN {"SEVERE AMS"}
              ELSE IF gate /\ lake_louise_score >= 3 THEN {"MILD-MODERATE AMS"}
              ELSE {}

C10_Witness ==
    /\ pc = "shown"
    /\ ~Emergency
    /\ ~symptoms.headache
    /\ lake_louise_score = 3
    /\ diagnosis = {}

\* C11: whenever an emergency (HACE or HAPE) is reported, no Mild-Moderate
\* or Severe AMS recommendation is shown in the same run.
C11_EmergencySupersedes ==
    (pc = "shown" /\ Emergency) => diagnosis \cap AMSMessages = {}

\* C12: with ataxia set an emergency is reported, whatever the basic
\* symptoms, that is for every Lake Louise score 0..4.
C12_AtaxiaIsEmergency ==
    (pc = "shown" /\ symptoms.ataxia) => Emergency

C12_Witness ==
    /\ pc = "shown"
    /\ symptoms.ataxia
    /\ ~symptoms.altered_mental /\ ~symptoms.severe_lassitude
    /\ pulmonary_symptoms(symptoms) = 0
    /\ lake_louise_score = 4
    /\ "HACE" \in diagnosis

\* C13: with at least two of the five pulmonary flags set an emergency is
\* reported, also when the two are only dyspnea on exertion and dry cough.
C13_TwoPulmonaryIsEmergency ==
    (pc = "shown"
     /\ B(symptoms.dyspnea_exertion) + B(symptoms.dyspnea_rest) + B(symptoms.cough_dry)
        + B(symptoms.cough_productive) + B(symptoms.chest_tightness) >= 2)
        => Emergency

C13_Witness ==
    /\ pc = "shown"
    /\ symptoms.dyspnea_exertion /\ symptoms.cough_dry
    /\ ~symptoms.dyspnea_rest /\ ~symptoms.cough_productive /\ ~symptoms.chest_tightness
    /\ cerebral_symptoms(symptoms) = 0
    /\ diagnosis = {"HAPE"}

\* C17: the Severe AMS branch (Lake Louise score >= 6) is taken for no
\* combination of the 14 flags.
C17_SevereUnreachable ==
    /\ "SEVERE AMS" \notin diagnosis
    /\ lake_louise_score < 6

C17_Witness ==
    /\ pc = "shown"
    /\ symptoms.headache
    /\ lake_louise_score = 4
    /\ diagnosis = {"MILD-MODERATE AMS"}

InHighWindow == elevation >= 2800 /\ elevation < 3500

\* C15 as stated: in the ascent-profile step at 2800 <= elevation < 3500
\* with rapid ascent, the level becomes Moderate and the factor is appended
\* only from level Low; from Moderate or High the step changes neither the
\* level nor the factors.
C15_OnlyFromLow ==
    [][(pc = "ascent" /\ InHighWindow /\ profile.rapid_ascent) =>
          IF risk_level = "Low"
          THEN /\ risk_level' = "Moderate"
               /\ risk_factors' = Append(risk_factors, F_RAPID_HIGH)
          ELSE /\ risk_level' = risk_level
               /\ risk_factors' = risk_factors]_vars

\* C15 amended: in that step the factor is appended whatever the level;
\* the level becomes Moderate from Low, and stays Moderate or High.
C15_FactorAlwaysAppended ==
    [][(pc = "ascent" /\ InHighWindow /\ profile.rapid_ascent) =>
          /\ risk_factors' = Append(risk_factors, F_RAPID_HIGH)
          /\ risk_level' = (IF risk_level = "Low" THEN "Moderate" ELSE risk_level)]_vars

C15_Witness ==
    /\ pc = "activity"
    /\ InHighWindow
    /\ profile.rapid_ascent
    /\ profile.previous_hace
    /\ risk_level = "High"
    /\ risk_factors = <<F_HACE, F_RAPID_HIGH>>

Toggled(p) == [p EXCEPT !.physical_activity = ~p.physical_activity]

\* C16: the exertion step appends one exertion factor, as the last element,
\* iff exertion is planned and elevation >= 2500; it leaves the level as it
\* was, and toggling the exertion flag never changes the returned level.
C16_ExertionOnlyAddsFactor ==
    /\ [](pc = "return" =>
            /\ Positions(risk_factors, {F_ACTIVITY})
                 = (IF profile.physical_activity /\ elevation >= 2500
                    THEN {Len(risk_factors)} ELSE {})
            /\ risk_level = assess_risk_profile(elevation, Toggled(profile)).level)
    /\ [][(pc = "activity") => (risk_level' = risk_level)]_vars

C16_Witness ==
    /\ pc = "return"
    /\ profile = [NoProfile EXCEPT !.physical_activity = TRUE]
    /\ elevation = 2500
    /\ risk_level = "Low"
    /\ risk_factors = <<F_ACTIVITY>>

\* C20: for a fixed profile the returned level never decreases as the
\* elevation increases (Low < Moderate < High).
C20_MonotoneInElevation ==
    pc = "return" =>
        \A e \in Elevations :
            /\ (e <= elevation =>
                   Rank(assess_risk_profile(e, profile).level) <= Rank(risk_level))
            /\ (e >= elevation =>
                   Rank(assess_risk_profile(e, profile).level) >= Rank(risk_level))

C20_Witness ==
    /\ pc = "return"
    /\ profile = [NoProfile EXCEPT !.rapid_ascent = TRUE]
    /\ elevation = 3000
    /\ risk_level = "Moderate"
    /\ assess_risk_profile(2500, profile).level = "Low"
    /\ assess_risk_profile(3500, profile).level = "High"

Stored == "elevation_data" \in DOMAIN session_state

\* C18: elevation_data, when present, always has success = True; a lookup
\* that fails (st.error) or is submitted with an empty name (st.warning)
\* leaves the session as it was, and the main content uses the stored
\* elevation.
C18_StoredIsSuccess ==
    /\ [](Stored => session_state["elevation_data"].success)
    /\ [][(pc = "idle" /\ notice' \in {"error", "warning"})
             => (session_state' = session_state)]_vars
    /\ [](pc = "classified" =>
             (Stored /\ elevation = session_state["elevation_data"].elevation))

C18_Witness ==
    /\ pc = "classified"
    /\ notice = "error"
    /\ Stored
    /\ session_state["elevation_data"].location = "Manual Entry"
    /\ elevation = session_state["elevation_data"].elevation

\* C19: get_elevation always returns to its caller; the result is a success
\* carrying the elevation exactly when the geocoding answer is 200 with a
\* non-empty list and the elevation answer is 200 (both well-formed); in
\* every other case it is an error value with success = False and no
\* elevation.
C19_GetElevationTotal ==
    pc = "looked_up" =>
        /\ "success" \in DOMAIN result
        /\ result.success <=> (response.geo = "ok" /\ response.elev = "ok")
        /\ result.success =>
              ("elevation" \in DOMAIN result /\ result.elevation = response.elevation)
        /\ ~result.success =>
              ("elevation" \notin DOMAIN result /\ "error" \in DOMAIN result)

C19_Witness ==
    /\ pc = "looked_up"
    /\ response.geo = "ok"
    /\ response.elev = "malformed"
    /\ result = [success |-> FALSE, error |-> "malformed"]

====
